---- MODULE Spec2Model ----
(***************************************************************************)
(* Ticket redemption relay (server/redeemer.go): the Redeemer gRPC server  *)
(* (per-sender monitor goroutines, subscriber fan-out registry, liveness   *)
(* sweep) and the RedeemerClient proxy (balance cache, receive loop,       *)
(* cleanup sweep).                                                         *)
(***************************************************************************)
EXTENDS Integers, Sequences, FiniteSets, TLC

(* ---------------------------------------------------------------- bounds *)
MaxMonitors == 2      \* monitorMaxFloat goroutines spawned by QueueTicket
MaxHandlers == 2      \* MonitorMaxFloat streaming calls
MaxChanges == 2       \* max-float changes the Float Authority publishes
MaxTime == 2          \* clock ticks, in units of one hour
StreamCalls == 1      \* MonitorMaxFloat calls in the streaming specification
MaxCallers == 1       \* goroutines calling RedeemerClient.MaxFloat, one call at a time
MaxRecv == 1          \* updates the client's stream.Recv returns
MaxRound == 5         \* protocol rounds: withdraw round, last initialized round
IntWidth == 4         \* bits of an int64, scaled down
MaxField == 1         \* largest number in a ticket field

(* -------------------------------------------------------- program values *)
cleanupLoopTime == 1  \* var cleanupLoopTime = 1 * time.Hour
SinkCap == 10         \* sink := make(chan *big.Int, 10)
AddressLength == 2    \* bytes of an ethcommon.Address, scaled down
HashLength == 2       \* bytes of an ethcommon.Hash, scaled down

SenderOrder == <<"s1", "s2">>
PeerOrder == <<"p1", "p2">>
Senders == {SenderOrder[i] : i \in DOMAIN SenderOrder}
Peers == {PeerOrder[i] : i \in DOMAIN PeerOrder}
Monitors == 1..MaxMonitors
Handlers == 1..MaxHandlers
Calls == 1..MaxCallers
Changes == 1..MaxChanges
\* MaxFloat bytes the relay sends: of a nil or zero value, and of the value 1
WireFloats == {<<>>, <<1>>}

None == -1            \* absent map entry / nil *big.Int / no channel
NoMsg == [sender |-> "none", maxFloat |-> <<>>]
NoRet == [code |-> "none", msg |-> "none"]
NoHRet == [code |-> "none", msg |-> "none", via |-> "none"]
NoEntry == [maxFloat |-> None, lastAccess |-> None]
NoRes == [op |-> "none", val |-> None, err |-> "none", rpc |-> FALSE]
NoSnap == [live |-> <<>>, at |-> None]
NoOp == [op |-> "none", sender |-> "none", infoErr |-> FALSE,
         withdrawRound |-> 0, lastInitializedRound |-> 0, ret |-> "none"]
Rounds == 0..MaxRound

VARIABLES
  now,          \* time.Now(), in hours
  started,      \* Redeemer.Start has been called (server is serving)
  quit,         \* r.quit is closed
  liveSenders,  \* r.liveSenders: sender -> lastAccess or None
  subs,         \* r.subs: peer address -> channel (named by its creator) or None
  qtRet,        \* result of the last Redeemer.QueueTicket call
  mPc, mSender, \* monitorMaxFloat goroutine: position, sender
  sink,         \* its sink channel (buffered)
  mUpd,         \* the value it is broadcasting
  mTodo,        \* keys r.subs.Range has still to visit
  mCh,          \* channel it is blocked sending on
  numChanges,   \* changes the Float Authority has published
  hPc, hPeer,   \* MonitorMaxFloat handler: position (or how it returned), peer
  hCh,          \* maxFloatUpdates channel it receives from
  hMsg,         \* update it is about to stream.Send
  hRet,         \* the status the handler returned, and the select case it left by
  sent,         \* updates stream.Send delivered on the handler's open stream
  tickC,        \* server ticker.C holds a tick
  sweepPc,      \* Redeemer.startCleanupLoop position
  sweepTodo,    \* keys r.liveSenders.Range has still to visit
  sweepSnap,    \* history: the map and time at the start of the last sweep,
                \* while no entry was touched since and no tick fell in it
  senders,      \* RedeemerClient.senders: sender -> (maxFloat, lastAccess) or NoEntry
  mu,           \* RedeemerClient.mu is locked
  cQuit,        \* RedeemerClient.quit is closed
  recvPc,       \* RedeemerClient.monitorMaxFloat position
  recvUpd,      \* the update it took from updateC
  hlpPc,        \* the goroutine around stream.Recv: position
  hlpMsg,       \* the update it holds for updateC
  numRecv,      \* updates stream.Recv has returned
  callPc, callSender, \* a caller's RedeemerClient.MaxFloat call: position, sender
  callRes,      \* what its last call (MaxFloat, QueueTicket, SubscribeMaxFloat)
                \* returned, and whether it used a unary RPC
  cTickC,       \* client ticker.C holds a tick
  cSweepPc,     \* RedeemerClient.startCleanupLoop position
  cleared,      \* sm.Clear(sender) calls, per sender
  opRet,        \* the last ValidateSender call on the client: what it was
                \* given and what it returned
  codec         \* a ticket on its way from RedeemerClient.QueueTicket to
                \* Redeemer.QueueTicket: the ticket, its net.Ticket, the decoded ticket

srvVars == <<started, quit, liveSenders, subs, qtRet, mPc, mSender, sink, mUpd,
             mTodo, mCh, numChanges, hPc, hPeer, hCh, hMsg, hRet, sent,
             tickC, sweepPc, sweepTodo, sweepSnap>>
monVars == <<mPc, mSender, sink, mUpd, mTodo, mCh>>
hdlVars == <<hPc, hPeer, hCh, hMsg, hRet, sent>>
sweepVars == <<tickC, sweepPc, sweepTodo, sweepSnap>>
opVars == <<opRet, codec>>
cliVars == <<senders, mu, cQuit, recvPc, recvUpd, hlpPc, hlpMsg, numRecv,
             callPc, callSender, callRes, cTickC, cSweepPc, cleared, opVars>>
vars == <<now, srvVars, cliVars>>

(* ------------------------------------------------------------ wire codec *)
RECURSIVE Bytes(_)
\* big.Int.Bytes(): big-endian magnitude, empty for zero
Bytes(v) == IF v = 0 THEN <<>> ELSE Append(Bytes(v \div 256), v % 256)
RECURSIVE SetBytes(_)
\* new(big.Int).SetBytes(b): big-endian unsigned; empty bytes decode to zero
SetBytes(b) ==
  IF Len(b) = 0 THEN 0
  ELSE 256 * SetBytes(SubSeq(b, 1, Len(b) - 1)) + b[Len(b)]
\* sendMaxFloatUpdate: a nil maxFloat leaves MaxFloat as nil bytes
MaxFloatB(maxFloat) == IF maxFloat # None THEN Bytes(maxFloat) ELSE <<>>

\* a byte sequence cut or zero-padded on the left to n bytes
\* (ethcommon.BytesToAddress, ethcommon.BytesToHash)
RECURSIVE LeftPad(_, _)
LeftPad(b, n) ==
  IF Len(b) > n THEN SubSeq(b, Len(b) - n + 1, Len(b))
  ELSE IF Len(b) = n THEN b
  ELSE LeftPad(<<0>> \o b, n)
BytesToAddress(b) == LeftPad(b, AddressLength)
BytesToHash(b) == LeftPad(b, HashLength)

\* (mutant) WinProb is filled from the face value
protoTicketCopiedField(ticket) ==
  [Sender |-> ticket.Sender,
   RecipientRand |-> ticket.Recipient,
   TicketParams |-> [Recipient |-> ticket.Recipient,
                     FaceValue |-> Bytes(ticket.FaceValue),
                     WinProb |-> Bytes(ticket.FaceValue),
                     RecipientRandHash |-> ticket.RecipientRandHash,
                     ExpirationBlock |-> Bytes(ticket.ParamsExpirationBlock)],
   SenderParams |-> [SenderNonce |-> ticket.SenderNonce, Sig |-> ticket.Sig],
   ExpirationParams |-> [CreationRound |-> ticket.CreationRound,
                         CreationRoundBlockHash |-> ticket.CreationRoundBlockHash]]

\* protoTicket: pm.SignedTicket -> net.Ticket; Address.Bytes() and
\* Hash.Bytes() are all the bytes of the fixed-size array
protoTicket(ticket) ==
  [Sender |-> ticket.Sender,
   RecipientRand |-> ticket.Recipient,
   TicketParams |-> [Recipient |-> ticket.Recipient,
                     FaceValue |-> Bytes(ticket.FaceValue),
                     WinProb |-> Bytes(ticket.WinProb),
                     RecipientRandHash |-> ticket.RecipientRandHash,
                     ExpirationBlock |-> Bytes(ticket.ParamsExpirationBlock)],
   SenderParams |-> [SenderNonce |-> ticket.SenderNonce, Sig |-> ticket.Sig],
   ExpirationParams |-> [CreationRound |-> ticket.CreationRound,
                         CreationRoundBlockHash |-> ticket.CreationRoundBlockHash]]

\* pmTicket: net.Ticket -> pm.SignedTicket
pmTicket(ticket) ==
  [Recipient |-> BytesToAddress(ticket.TicketParams.Recipient),
   Sender |-> BytesToAddress(ticket.Sender),
   FaceValue |-> SetBytes(ticket.TicketParams.FaceValue),
   WinProb |-> SetBytes(ticket.TicketParams.WinProb),
   SenderNonce |-> ticket.SenderParams.SenderNonce,
   RecipientRandHash |-> BytesToHash(ticket.TicketParams.RecipientRandHash),
   CreationRound |-> ticket.ExpirationParams.CreationRound,
   CreationRoundBlockHash |-> BytesToHash(ticket.ExpirationParams.CreationRoundBlockHash),
   ParamsExpirationBlock |-> SetBytes(ticket.TicketParams.ExpirationBlock),
   RecipientRand |-> SetBytes(ticket.RecipientRand),
   Sig |-> ticket.SenderParams.Sig]

\* signed tickets with every field set
ByteVals == {0, 1}
Addresses == [1..AddressLength -> ByteVals]
Hashes == [1..HashLength -> ByteVals]
FieldVals == 0..MaxField
Tickets ==
  [Recipient : Addresses, Sender : Addresses, FaceValue : FieldVals,
   WinProb : FieldVals, SenderNonce : FieldVals, RecipientRandHash : Hashes,
   CreationRound : FieldVals, CreationRoundBlockHash : Hashes,
   ParamsExpirationBlock : FieldVals, RecipientRand : FieldVals,
   Sig : {<<>>, <<1>>}]
NoCodec == [stage |-> "none"]

(* ------------------------------------------------------------------ Init *)
\* NewRedeemer and NewRedeemerClient: nothing started, empty maps
InitState ==
  /\ now = 0
  /\ started = FALSE
  /\ quit = FALSE
  /\ liveSenders = [s \in Senders |-> None]
  /\ subs = [p \in Peers |-> None]
  /\ qtRet = NoRet
  /\ mPc = [g \in Monitors |-> "idle"]
  /\ mSender = [g \in Monitors |-> "none"]
  /\ sink = [g \in Monitors |-> <<>>]
  /\ mUpd = [g \in Monitors |-> None]
  /\ mTodo = [g \in Monitors |-> {}]
  /\ mCh = [g \in Monitors |-> None]
  /\ numChanges = 0
  /\ hPc = [h \in Handlers |-> "idle"]
  /\ hPeer = [h \in Handlers |-> "none"]
  /\ hCh = [h \in Handlers |-> None]
  /\ hMsg = [h \in Handlers |-> NoMsg]
  /\ hRet = [h \in Handlers |-> NoHRet]
  /\ sent = [h \in Handlers |-> <<>>]
  /\ tickC = FALSE
  /\ sweepPc = "notStarted"
  /\ sweepTodo = {}
  /\ sweepSnap = NoSnap
  /\ senders = [s \in Senders |-> NoEntry]
  /\ mu = FALSE
  /\ cQuit = FALSE
  /\ recvPc = "idle"
  /\ recvUpd = NoMsg
  /\ hlpPc = "idle"
  /\ hlpMsg = NoMsg
  /\ numRecv = 0
  /\ callPc = [c \in Calls |-> "idle"]
  /\ callSender = [c \in Calls |-> "none"]
  /\ callRes = [c \in Calls |-> NoRes]
  /\ cTickC = FALSE
  /\ cSweepPc = "notStarted"
  /\ cleared = [s \in Senders |-> 0]
  /\ opRet = NoOp

Init == InitState /\ codec = NoCodec

(* ---------------------------------------------------------------- server *)
\* Redeemer.Start: registers the service and launches the cleanup loop
Start ==
  /\ ~started
  /\ started' = TRUE
  /\ sweepPc' = "wait"
  /\ UNCHANGED <<cliVars, now, quit, liveSenders, subs, qtRet, monVars, numChanges,
                 hdlVars, tickC, sweepTodo, sweepSnap>>

\* Redeemer.Stop: close(r.quit)
Stop ==
  /\ started /\ ~quit
  /\ quit' = TRUE
  /\ UNCHANGED <<cliVars, now, started, liveSenders, subs, qtRet, monVars, numChanges,
                 hdlVars, sweepVars>>

\* the clock advances by one ticker period; ticker.C buffers one tick
Tick ==
  /\ now < MaxTime
  /\ now' = now + 1
  /\ tickC' = (sweepPc # "notStarted")
  /\ sweepSnap' = IF sweepPc = "range" THEN NoSnap ELSE sweepSnap
  /\ cTickC' = (cSweepPc \in {"wait", "lock"})
  /\ UNCHANGED <<senders, mu, cQuit, recvPc, recvUpd, hlpPc, hlpMsg, numRecv,
                 callPc, callSender, callRes, cSweepPc, cleared, opVars>>
  /\ UNCHANGED <<started, quit, liveSenders, subs, qtRet, monVars, numChanges,
                 hdlVars, sweepPc, sweepTodo>>

\* senders and peers are interchangeable: a new one is always the first unused
FirstNew(order, used) ==
  {order[i] : i \in {j \in DOMAIN order :
                       /\ order[j] \notin used
                       /\ \A k \in 1..(j - 1) : order[k] \in used}}
TicketSenders == LET used == {mSender[g] : g \in Monitors} IN
                 (used \cap Senders) \cup FirstNew(SenderOrder, used)
CallingPeers == LET used == {hPeer[h] : h \in Handlers} IN
                (used \cap Peers) \cup FirstNew(PeerOrder, used)

IdleMonitors == {g \in Monitors : mPc[g] = "idle"}
NextMonitor == CHOOSE g \in IdleMonitors : \A k \in IdleMonitors : g <= k

\* (mutant) the error branch lacks its return and goes on to spawn the monitor
QueueTicketFailSpawns(s, err) ==
  /\ started
  /\ IdleMonitors # {}
  /\ qtRet' = [code |-> "Internal", msg |-> err]
  /\ mPc' = [mPc EXCEPT ![NextMonitor] = "load"]
  /\ mSender' = [mSender EXCEPT ![NextMonitor] = s]
  /\ UNCHANGED <<cliVars, now, started, quit, liveSenders, subs, sink, mUpd, mTodo, mCh,
                 numChanges, hdlVars, sweepVars>>

\* Redeemer.QueueTicket, r.sm.QueueTicket returning an error: the call
\* returns status.Error(codes.Internal, err.Error())
QueueTicketFail(s, err) ==
  /\ started
  /\ qtRet' = [code |-> "Internal", msg |-> err]
  /\ UNCHANGED <<cliVars, now, started, quit, liveSenders, subs, monVars, numChanges,
                 hdlVars, sweepVars>>

\* Redeemer.QueueTicket, r.sm.QueueTicket succeeding: go r.monitorMaxFloat
QueueTicketOk(s) ==
  /\ started
  /\ s \in TicketSenders
  /\ IdleMonitors # {}
  /\ mPc' = [mPc EXCEPT ![NextMonitor] = "load"]
  /\ mSender' = [mSender EXCEPT ![NextMonitor] = s]
  /\ qtRet' = [code |-> "OK", msg |-> "none"]
  /\ UNCHANGED <<cliVars, now, started, quit, liveSenders, subs, sink, mUpd, mTodo, mCh,
                 numChanges, hdlVars, sweepVars>>

QueueTicket(s, err) ==
  IF err # "nil" THEN QueueTicketFail(s, err) ELSE QueueTicketOk(s)

\* monitorMaxFloat: _, ok := r.liveSenders.Load(sender)
MonitorLoad(g) ==
  /\ mPc[g] = "load"
  /\ mPc' = [mPc EXCEPT ![g] =
               IF liveSenders[mSender[g]] # None THEN "touch" ELSE "create"]
  /\ UNCHANGED <<cliVars, now, started, quit, liveSenders, subs, qtRet, mSender, sink,
                 mUpd, mTodo, mCh, numChanges, hdlVars, sweepVars>>

\* monitorMaxFloat, ok: update last access and return
MonitorTouch(g) ==
  /\ mPc[g] = "touch"
  /\ liveSenders' = [liveSenders EXCEPT ![mSender[g]] = now]
  /\ mPc' = [mPc EXCEPT ![g] = "done"]
  /\ sweepSnap' = NoSnap
  /\ UNCHANGED <<cliVars, now, started, quit, subs, qtRet, mSender, sink, mUpd, mTodo,
                 mCh, numChanges, hdlVars, tickC, sweepPc, sweepTodo>>

\* monitorMaxFloat, not ok: r.liveSenders.Store(sender, time.Now())
MonitorCreate(g) ==
  /\ mPc[g] = "create"
  /\ liveSenders' = [liveSenders EXCEPT ![mSender[g]] = now]
  /\ mPc' = [mPc EXCEPT ![g] = "subscribe"]
  /\ sweepSnap' = NoSnap
  /\ UNCHANGED <<cliVars, now, started, quit, subs, qtRet, mSender, sink, mUpd, mTodo,
                 mCh, numChanges, hdlVars, tickC, sweepPc, sweepTodo>>

\* monitorMaxFloat: sub := r.sm.SubscribeMaxFloat(sender, sink)
MonitorSubscribe(g) ==
  /\ mPc[g] = "subscribe"
  /\ mPc' = [mPc EXCEPT ![g] = "loop"]
  /\ UNCHANGED <<cliVars, now, started, quit, liveSenders, subs, qtRet, mSender, sink,
                 mUpd, mTodo, mCh, numChanges, hdlVars, sweepVars>>

Subscribed(g) == mPc[g] \in {"loop", "range", "send"}

\* monitorMaxFloat select: case <-r.quit (deferred sub.Unsubscribe)
MonitorQuit(g) ==
  /\ mPc[g] = "loop"
  /\ quit
  /\ mPc' = [mPc EXCEPT ![g] = "done"]
  /\ sink' = [sink EXCEPT ![g] = <<>>]
  /\ UNCHANGED <<cliVars, now, started, quit, liveSenders, subs, qtRet, mSender, mUpd,
                 mTodo, mCh, numChanges, hdlVars, sweepVars>>

\* monitorMaxFloat select: case mf := <-sink; sendMaxFloatUpdate starts
\* r.subs.Range over the keys then present
MonitorTake(g) ==
  /\ mPc[g] = "loop"
  /\ sink[g] # <<>>
  /\ mUpd' = [mUpd EXCEPT ![g] = Head(sink[g])]
  /\ sink' = [sink EXCEPT ![g] = Tail(sink[g])]
  /\ mTodo' = [mTodo EXCEPT ![g] = {p \in Peers : subs[p] # None}]
  /\ mPc' = [mPc EXCEPT ![g] = "range"]
  /\ UNCHANGED <<cliVars, now, started, quit, liveSenders, subs, qtRet, mSender, mCh,
                 numChanges, hdlVars, sweepVars>>

\* r.subs.Range visits a key: an entry deleted meanwhile is skipped,
\* otherwise the callback starts its blocking send on the entry's channel
MonitorRangeNext(g, p) ==
  /\ mPc[g] = "range"
  /\ p \in mTodo[g]
  /\ mTodo' = [mTodo EXCEPT ![g] = @ \ {p}]
  /\ IF subs[p] = None
       THEN UNCHANGED <<mPc, mCh>>
       ELSE /\ mPc' = [mPc EXCEPT ![g] = "send"]
            /\ mCh' = [mCh EXCEPT ![g] = subs[p]]
  /\ UNCHANGED <<cliVars, now, started, quit, liveSenders, subs, qtRet, mSender, sink,
                 mUpd, numChanges, hdlVars, sweepVars>>

\* r.subs.Range has visited every key: back to the select
MonitorRangeDone(g) ==
  /\ mPc[g] = "range"
  /\ mTodo[g] = {}
  /\ mPc' = [mPc EXCEPT ![g] = "loop"]
  /\ mUpd' = [mUpd EXCEPT ![g] = None]
  /\ UNCHANGED <<cliVars, now, started, quit, liveSenders, subs, qtRet, mSender, sink,
                 mTodo, mCh, numChanges, hdlVars, sweepVars>>

\* the Float Authority publishes a change of sender s to every subscribed sink
AuthorityChange(s, nil) ==
  /\ numChanges < MaxChanges
  /\ \E g \in Monitors : Subscribed(g) /\ mSender[g] = s
  /\ \A g \in Monitors : Subscribed(g) /\ mSender[g] = s => Len(sink[g]) < SinkCap
  /\ numChanges' = numChanges + 1
  /\ sink' = [g \in Monitors |->
                IF Subscribed(g) /\ mSender[g] = s
                  THEN Append(sink[g], IF nil THEN None ELSE numChanges + 1)
                  ELSE sink[g]]
  /\ UNCHANGED <<cliVars, now, started, quit, liveSenders, subs, qtRet, mPc, mSender,
                 mUpd, mTodo, mCh, hdlVars, sweepVars>>

(* ------------------------------------------------- MonitorMaxFloat (RPC) *)
IdleHandlers == {h \in Handlers : hPc[h] = "idle"}
NextHandler == CHOOSE h \in IdleHandlers : \A k \in IdleHandlers : h <= k

\* a peer calls MonitorMaxFloat: the handler starts with the peer's address
MonitorMaxFloatCall(p) ==
  /\ started
  /\ p \in CallingPeers
  /\ IdleHandlers # {}
  /\ hPc' = [hPc EXCEPT ![NextHandler] = "load"]
  /\ hPeer' = [hPeer EXCEPT ![NextHandler] = p]
  /\ UNCHANGED <<cliVars, now, started, quit, liveSenders, subs, qtRet, monVars,
                 numChanges, hCh, hMsg, hRet, sent, sweepVars>>

\* MonitorMaxFloat: maxFloatUpdatesI, ok := r.subs.Load(p.Addr.String())
HandlerLoad(h) ==
  /\ hPc[h] = "load"
  /\ IF subs[hPeer[h]] = None
       THEN /\ hPc' = [hPc EXCEPT ![h] = "store"]
            /\ UNCHANGED hCh
       ELSE /\ hPc' = [hPc EXCEPT ![h] = "select"]
            /\ hCh' = [hCh EXCEPT ![h] = subs[hPeer[h]]]
  /\ UNCHANGED <<cliVars, now, started, quit, liveSenders, subs, qtRet, monVars,
                 numChanges, hPeer, hMsg, hRet, sent, sweepVars>>

\* MonitorMaxFloat, !ok: make a channel and r.subs.Store it
HandlerStore(h) ==
  /\ hPc[h] = "store"
  /\ hCh' = [hCh EXCEPT ![h] = h]
  /\ subs' = [subs EXCEPT ![hPeer[h]] = h]
  /\ hPc' = [hPc EXCEPT ![h] = "select"]
  /\ UNCHANGED <<cliVars, now, started, quit, liveSenders, qtRet, monVars, numChanges,
                 hPeer, hMsg, hRet, sent, sweepVars>>

\* the unbuffered channel hands an update over: the send in
\* sendMaxFloatUpdate meets case maxFloatUpdate := <-maxFloatUpdates
Deliver(g, h) ==
  /\ mPc[g] = "send"
  /\ hPc[h] = "select"
  /\ hCh[h] = mCh[g]
  /\ hMsg' = [hMsg EXCEPT ![h] =
                [sender |-> mSender[g], maxFloat |-> MaxFloatB(mUpd[g])]]
  /\ hPc' = [hPc EXCEPT ![h] = "send"]
  /\ mPc' = [mPc EXCEPT ![g] = "range"]
  /\ mCh' = [mCh EXCEPT ![g] = None]
  /\ UNCHANGED <<cliVars, now, started, quit, liveSenders, subs, qtRet, mSender, sink,
                 mUpd, mTodo, numChanges, hPeer, hCh, hRet, sent,
                 sweepVars>>

\* (mutant) any Send error unsubscribes and ends the handler
HandlerSendAnyError(h, err) ==
  /\ hPc[h] = "send"
  /\ hMsg' = [hMsg EXCEPT ![h] = NoMsg]
  /\ sent' = [sent EXCEPT ![h] = IF err = "nil" THEN Append(@, hMsg[h]) ELSE <<>>]
  /\ subs' = [subs EXCEPT ![hPeer[h]] = IF err # "nil" THEN None ELSE @]
  /\ hPc' = [hPc EXCEPT ![h] = IF err # "nil" THEN "returned" ELSE "select"]
  /\ hCh' = [hCh EXCEPT ![h] = IF err # "nil" THEN None ELSE @]
  /\ hRet' = [hRet EXCEPT ![h] =
                IF err # "nil" THEN [code |-> "Internal", msg |-> err, via |-> "send"] ELSE @]
  /\ UNCHANGED <<cliVars, now, started, quit, liveSenders, qtRet, monVars, numChanges,
                 hPeer, sweepVars>>

\* MonitorMaxFloat: stream.Send(maxFloatUpdate) returns nil, io.EOF (the
\* handler deletes its peer's entry and returns an Internal error with the
\* error's text) or another error (logged, the loop goes on)
HandlerSend(h, err) ==
  /\ hPc[h] = "send"
  /\ hMsg' = [hMsg EXCEPT ![h] = NoMsg]
  /\ sent' = [sent EXCEPT ![h] = IF err = "nil" THEN Append(@, hMsg[h])
                                 ELSE IF err = "EOF" THEN <<>> ELSE @]
  /\ subs' = [subs EXCEPT ![hPeer[h]] = IF err = "EOF" THEN None ELSE @]
  /\ hPc' = [hPc EXCEPT ![h] = IF err = "EOF" THEN "returned" ELSE "select"]
  /\ hCh' = [hCh EXCEPT ![h] = IF err = "EOF" THEN None ELSE @]
  /\ hRet' = [hRet EXCEPT ![h] =
                IF err = "EOF" THEN [code |-> "Internal", msg |-> err, via |-> "send"] ELSE @]
  /\ UNCHANGED <<cliVars, now, started, quit, liveSenders, qtRet, monVars, numChanges,
                 hPeer, sweepVars>>

\* MonitorMaxFloat select: case <-r.quit: return nil
HandlerQuit(h) ==
  /\ hPc[h] = "select"
  /\ quit
  /\ hPc' = [hPc EXCEPT ![h] = "returned"]
  /\ hRet' = [hRet EXCEPT ![h] = [code |-> "OK", msg |-> "none", via |-> "quit"]]
  /\ hCh' = [hCh EXCEPT ![h] = None]
  /\ sent' = [sent EXCEPT ![h] = <<>>]
  /\ UNCHANGED <<cliVars, now, started, quit, liveSenders, subs, qtRet, monVars,
                 numChanges, hPeer, hMsg, sweepVars>>

\* MonitorMaxFloat select: case <-stream.Context().Done(): return nil
\* (the peer went away or cancelled, which the handler sees at its select)
HandlerCtxDone(h) ==
  /\ hPc[h] = "select"
  /\ hPc' = [hPc EXCEPT ![h] = "returned"]
  /\ hRet' = [hRet EXCEPT ![h] = [code |-> "OK", msg |-> "none", via |-> "ctx"]]
  /\ hCh' = [hCh EXCEPT ![h] = None]
  /\ sent' = [sent EXCEPT ![h] = <<>>]
  /\ UNCHANGED <<cliVars, now, started, quit, liveSenders, subs, qtRet, monVars,
                 numChanges, hPeer, hMsg, sweepVars>>

(* ------------------------------------------- Redeemer.startCleanupLoop *)
\* case <-ticker.C: r.liveSenders.Range starts over the keys then present
SweepStart ==
  /\ sweepPc = "wait"
  /\ tickC
  /\ tickC' = FALSE
  /\ sweepTodo' = {s \in Senders : liveSenders[s] # None}
  /\ sweepPc' = IF sweepTodo' = {} THEN "wait" ELSE "range"
  /\ sweepSnap' = [live |-> liveSenders, at |-> now]
  /\ UNCHANGED <<cliVars, now, started, quit, liveSenders, subs, qtRet, monVars,
                 numChanges, hdlVars>>

\* (mutant) !After instead of Before
StaleOrDue(lastAccess, t) == lastAccess + cleanupLoopTime <= t

\* value.(time.Time).Add(cleanupLoopTime).Before(time.Now())
Stale(lastAccess, t) == lastAccess + cleanupLoopTime < t

\* the Range callback on one key: delete it when stale
SweepVisit(s) ==
  /\ sweepPc = "range"
  /\ s \in sweepTodo
  /\ sweepTodo' = sweepTodo \ {s}
  /\ sweepPc' = IF sweepTodo' = {} THEN "wait" ELSE "range"
  /\ liveSenders' =
       IF liveSenders[s] # None /\ Stale(liveSenders[s], now)
         THEN [liveSenders EXCEPT ![s] = None]
         ELSE liveSenders
  /\ UNCHANGED <<cliVars, now, started, quit, subs, qtRet, monVars, numChanges, hdlVars,
                 tickC, sweepSnap>>

\* case <-r.quit
SweepQuit ==
  /\ sweepPc = "wait"
  /\ quit
  /\ sweepPc' = "done"
  /\ UNCHANGED <<cliVars, now, started, quit, liveSenders, subs, qtRet, monVars,
                 numChanges, hdlVars, tickC, sweepTodo, sweepSnap>>

(* ------------------------------------------------------- RedeemerClient *)
\* RedeemerClient.Start: go r.monitorMaxFloat(context.Background()); the
\* goroutine opens the stream (ok) or logs the error and returns
ClientStart(ok) ==
  /\ recvPc = "idle"
  /\ recvPc' = IF ok THEN "loop" ELSE "done"
  /\ hlpPc' = IF ok THEN "recv" ELSE hlpPc
  /\ UNCHANGED <<now, srvVars, opVars, senders, mu, cQuit, recvUpd, hlpMsg, numRecv,
                 callPc, callSender, callRes, cTickC, cSweepPc, cleared>>

\* RedeemerClient.Stop: close(r.quit)
ClientStop ==
  /\ ~cQuit
  /\ cQuit' = TRUE
  /\ UNCHANGED <<now, srvVars, opVars, senders, mu, recvPc, recvUpd, hlpPc, hlpMsg,
                 numRecv, callPc, callSender, callRes, cTickC, cSweepPc,
                 cleared>>

\* the Recv goroutine: update, err := stream.Recv() returns an update
HelperRecv(s, b) ==
  /\ hlpPc = "recv"
  /\ numRecv < MaxRecv
  /\ numRecv' = numRecv + 1
  /\ hlpMsg' = [sender |-> s, maxFloat |-> b]
  /\ hlpPc' = "sendUpd"
  /\ UNCHANGED <<now, srvVars, opVars, senders, mu, cQuit, recvPc, recvUpd, callPc,
                 callSender, callRes, cTickC, cSweepPc, cleared>>

\* the Recv goroutine: stream.Recv() returns an error
HelperRecvErr ==
  /\ hlpPc = "recv"
  /\ hlpPc' = "sendErr"
  /\ UNCHANGED <<now, srvVars, opVars, senders, mu, cQuit, recvPc, recvUpd, hlpMsg,
                 numRecv, callPc, callSender, callRes, cTickC, cSweepPc,
                 cleared>>

\* monitorMaxFloat select: case <-r.quit
RecvQuit ==
  /\ recvPc = "loop"
  /\ cQuit
  /\ recvPc' = "done"
  /\ UNCHANGED <<now, srvVars, opVars, senders, mu, cQuit, recvUpd, hlpPc, hlpMsg,
                 numRecv, callPc, callSender, callRes, cTickC, cSweepPc,
                 cleared>>

\* monitorMaxFloat select: case update := <-updateC meets updateC <- update;
\* the loop goes on to r.mu.Lock()
RecvUpdate ==
  /\ recvPc = "loop"
  /\ hlpPc = "sendUpd"
  /\ recvUpd' = hlpMsg
  /\ hlpMsg' = NoMsg
  /\ hlpPc' = "recv"
  /\ recvPc' = "lock"
  /\ UNCHANGED <<now, srvVars, opVars, senders, mu, cQuit, numRecv, callPc, callSender,
                 callRes, cTickC, cSweepPc, cleared>>

\* (mutant) the entry gets a fresh big.Int that the update's bytes are never
\* set into
RecvStoreUnset ==
  /\ recvPc = "lock"
  /\ ~mu
  /\ senders' = [senders EXCEPT ![recvUpd.sender] =
                   [maxFloat |-> 0, lastAccess |-> now]]
  /\ recvUpd' = NoMsg
  /\ recvPc' = "loop"
  /\ UNCHANGED <<now, srvVars, opVars, mu, cQuit, hlpPc, hlpMsg, numRecv, callPc,
                 callSender, callRes, cTickC, cSweepPc, cleared>>

\* monitorMaxFloat: r.mu.Lock(); r.senders[sender] = {SetBytes(MaxFloat),
\* time.Now()}; r.mu.Unlock()
RecvStore ==
  /\ recvPc = "lock"
  /\ ~mu
  /\ senders' = [senders EXCEPT ![recvUpd.sender] =
                   [maxFloat |-> SetBytes(recvUpd.maxFloat), lastAccess |-> now]]
  /\ recvUpd' = NoMsg
  /\ recvPc' = "loop"
  /\ UNCHANGED <<now, srvVars, opVars, mu, cQuit, hlpPc, hlpMsg, numRecv, callPc,
                 callSender, callRes, cTickC, cSweepPc, cleared>>

\* monitorMaxFloat select: case err := <-errC meets errC <- err (logged)
RecvErr ==
  /\ recvPc = "loop"
  /\ hlpPc = "sendErr"
  /\ hlpPc' = "recv"
  /\ UNCHANGED <<now, srvVars, opVars, senders, mu, cQuit, recvPc, recvUpd, hlpMsg,
                 numRecv, callPc, callSender, callRes, cTickC, cSweepPc,
                 cleared>>

\* a caller invokes RedeemerClient.MaxFloat(sender) and reaches r.mu.Lock()
MaxFloatCall(c, s) ==
  /\ callPc[c] \in {"idle", "done"}
  /\ callPc' = [callPc EXCEPT ![c] = "lock"]
  /\ callSender' = [callSender EXCEPT ![c] = s]
  /\ callRes' = [callRes EXCEPT ![c] = NoRes]
  /\ UNCHANGED <<now, srvVars, opVars, senders, mu, cQuit, recvPc, recvUpd, hlpPc,
                 hlpMsg, numRecv, cTickC, cSweepPc, cleared>>

\* a non-nil cached value: mf, ok := r.senders[sender]; ok && mf.maxFloat != nil
Cached(s) == senders[s] # NoEntry /\ senders[s].maxFloat # None

\* MaxFloat: r.mu.Lock(); on a hit refresh lastAccess and return the cached
\* value (the mutex is not unlocked on this path); on a miss r.mu.Unlock()
MaxFloatLock(c) ==
  /\ callPc[c] = "lock"
  /\ ~mu
  /\ IF Cached(callSender[c])
       THEN /\ senders' = [senders EXCEPT ![callSender[c]].lastAccess = now]
            /\ callRes' = [callRes EXCEPT ![c] =
                 [op |-> "MaxFloat", val |-> senders[callSender[c]].maxFloat,
                  err |-> "nil", rpc |-> FALSE]]
            /\ callPc' = [callPc EXCEPT ![c] = "done"]
            /\ mu' = TRUE
       ELSE /\ callPc' = [callPc EXCEPT ![c] = "rpc"]
            /\ UNCHANGED <<senders, callRes, mu>>
  /\ UNCHANGED <<now, srvVars, opVars, cQuit, recvPc, recvUpd, hlpPc, hlpMsg, numRecv,
                 callSender, cTickC, cSweepPc, cleared>>

\* (mutant) the unary reply is put into the cache
MaxFloatRpcCaches(c, b) ==
  /\ callPc[c] = "rpc"
  /\ callRes' = [callRes EXCEPT ![c] =
       [op |-> "MaxFloat", val |-> SetBytes(b), err |-> "nil", rpc |-> TRUE]]
  /\ callPc' = [callPc EXCEPT ![c] = "done"]
  /\ senders' = [senders EXCEPT ![callSender[c]] =
                   [maxFloat |-> SetBytes(b), lastAccess |-> now]]
  /\ UNCHANGED <<now, srvVars, opVars, mu, cQuit, recvPc, recvUpd, hlpPc,
                 hlpMsg, numRecv, callSender, cTickC, cSweepPc, cleared>>

\* MaxFloat: mfu, err := r.rpc.MaxFloat(...) returns a reply
MaxFloatRpc(c, b) ==
  /\ callPc[c] = "rpc"
  /\ callRes' = [callRes EXCEPT ![c] =
       [op |-> "MaxFloat", val |-> SetBytes(b), err |-> "nil", rpc |-> TRUE]]
  /\ callPc' = [callPc EXCEPT ![c] = "done"]
  /\ UNCHANGED <<now, srvVars, opVars, senders, mu, cQuit, recvPc, recvUpd, hlpPc,
                 hlpMsg, numRecv, callSender, cTickC, cSweepPc, cleared>>

\* MaxFloat: r.rpc.MaxFloat(...) returns an error
MaxFloatRpcErr(c) ==
  /\ callPc[c] = "rpc"
  /\ callRes' = [callRes EXCEPT ![c] =
       [op |-> "MaxFloat", val |-> None, err |-> "rpc error", rpc |-> TRUE]]
  /\ callPc' = [callPc EXCEPT ![c] = "done"]
  /\ UNCHANGED <<now, srvVars, opVars, senders, mu, cQuit, recvPc, recvUpd, hlpPc,
                 hlpMsg, numRecv, callSender, cTickC, cSweepPc, cleared>>

\* go r.startCleanupLoop(): no code of the file launches it (Start does
\* not); a caller inside the package does
ClientCleanupLaunch ==
  /\ cSweepPc = "notStarted"
  /\ cSweepPc' = "wait"
  /\ UNCHANGED <<now, srvVars, opVars, senders, mu, cQuit, recvPc, recvUpd, hlpPc,
                 hlpMsg, numRecv, callPc, callSender, callRes, cTickC,
                 cleared>>

\* RedeemerClient.startCleanupLoop select: case <-ticker.C, on to r.mu.Lock()
ClientSweepTick ==
  /\ cSweepPc = "wait"
  /\ cTickC
  /\ cTickC' = FALSE
  /\ cSweepPc' = "lock"
  /\ UNCHANGED <<now, srvVars, opVars, senders, mu, cQuit, recvPc, recvUpd, hlpPc,
                 hlpMsg, numRecv, callPc, callSender, callRes, cleared>>

StaleSenders ==
  {s \in Senders : senders[s] # NoEntry /\ Stale(senders[s].lastAccess, now)}

\* startCleanupLoop: under the mutex, delete every stale entry and call
\* r.sm.Clear(sender) for it
ClientSweep ==
  /\ cSweepPc = "lock"
  /\ ~mu
  /\ senders' = [s \in Senders |-> IF s \in StaleSenders THEN NoEntry ELSE senders[s]]
  /\ cleared' = [s \in Senders |->
                   IF s \in StaleSenders THEN cleared[s] + 1 ELSE cleared[s]]
  /\ cSweepPc' = "wait"
  /\ UNCHANGED <<now, srvVars, opVars, mu, cQuit, recvPc, recvUpd, hlpPc, hlpMsg,
                 numRecv, callPc, callSender, callRes, cTickC>>

\* startCleanupLoop select: case <-r.quit
ClientSweepQuit ==
  /\ cSweepPc = "wait"
  /\ cQuit
  /\ cSweepPc' = "done"
  /\ UNCHANGED <<now, srvVars, opVars, senders, mu, cQuit, recvPc, recvUpd, hlpPc,
                 hlpMsg, numRecv, callPc, callSender, callRes, cTickC,
                 cleared>>

\* big.Int.Int64(): the low bits of x as a signed integer
Int64(x) ==
  LET m == 2^IntWidth
      r == x % m
  IN  IF r >= m \div 2 THEN r - m ELSE r

\* big.Int.Cmp: -1, 0 or +1
Cmp(x, y) == IF x < y THEN -1 ELSE IF x = y THEN 0 ELSE 1

\* (mutant) a withdraw round equal to the last initialized round + 1 passes
ValidateSenderBelow(infoErr, withdrawRound, lastInitializedRound) ==
  LET maxWithdrawRound == lastInitializedRound + 1
  IN  IF infoErr THEN "could not get sender info"
      ELSE IF Int64(withdrawRound) # 0 /\ Cmp(withdrawRound, maxWithdrawRound) = -1
             THEN "unlock soon"
             ELSE "nil"

\* RedeemerClient.ValidateSender, given what r.sm.GetSenderInfo(sender) and
\* r.tm.LastInitializedRound() return: the error it returns, or nil
ValidateSender(infoErr, withdrawRound, lastInitializedRound) ==
  LET maxWithdrawRound == lastInitializedRound + 1
  IN  IF infoErr THEN "could not get sender info"
      ELSE IF Int64(withdrawRound) # 0 /\ Cmp(withdrawRound, maxWithdrawRound) # 1
             THEN "unlock soon"
             ELSE "nil"

\* a call of RedeemerClient.ValidateSender(sender)
ValidateSenderCall(s, infoErr, withdrawRound, lastInitializedRound) ==
  /\ opRet' = [op |-> "ValidateSender", sender |-> s, infoErr |-> infoErr,
               withdrawRound |-> withdrawRound,
               lastInitializedRound |-> lastInitializedRound,
               ret |-> ValidateSender(infoErr, withdrawRound, lastInitializedRound)]
  /\ UNCHANGED <<now, srvVars, senders, mu, cQuit, recvPc, recvUpd, hlpPc,
                 hlpMsg, numRecv, callPc, callSender, callRes, cTickC,
                 cSweepPc, cleared, codec>>

\* RedeemerClient.QueueTicket: _, err := r.rpc.QueueTicket(ctx,
\* protoTicket(ticket)); return err
ClientQueueTicket(c, s, err) ==
  /\ callPc[c] \in {"idle", "done"}
  /\ callPc' = [callPc EXCEPT ![c] = "done"]
  /\ callSender' = [callSender EXCEPT ![c] = s]
  /\ callRes' = [callRes EXCEPT ![c] =
       [op |-> "QueueTicket", val |-> None, err |-> err, rpc |-> TRUE]]
  /\ UNCHANGED <<now, srvVars, opVars, senders, mu, cQuit, recvPc, recvUpd,
                 hlpPc, hlpMsg, numRecv, cTickC, cSweepPc, cleared>>

\* RedeemerClient.SubscribeMaxFloat: return nil
ClientSubscribeMaxFloat(c, s) ==
  /\ callPc[c] \in {"idle", "done"}
  /\ callPc' = [callPc EXCEPT ![c] = "done"]
  /\ callSender' = [callSender EXCEPT ![c] = s]
  /\ callRes' = [callRes EXCEPT ![c] =
       [op |-> "SubscribeMaxFloat", val |-> None, err |-> "nil", rpc |-> FALSE]]
  /\ UNCHANGED <<now, srvVars, opVars, senders, mu, cQuit, recvPc, recvUpd,
                 hlpPc, hlpMsg, numRecv, cTickC, cSweepPc, cleared>>

\* RedeemerClient.QueueTicket builds the request: protoTicket(ticket)
EncodeTicket ==
  /\ codec.stage = "ticket"
  /\ codec' = [stage |-> "wire", ticket |-> codec.ticket,
               wire |-> protoTicket(codec.ticket)]
  /\ UNCHANGED <<now, srvVars, senders, mu, cQuit, recvPc, recvUpd, hlpPc,
                 hlpMsg, numRecv, callPc, callSender, callRes, cTickC,
                 cSweepPc, cleared, opRet>>

\* Redeemer.QueueTicket reads the request: pmTicket(ticket)
DecodeTicket ==
  /\ codec.stage = "wire"
  /\ codec' = [stage |-> "decoded", ticket |-> codec.ticket,
               back |-> pmTicket(codec.wire)]
  /\ UNCHANGED <<now, srvVars, senders, mu, cQuit, recvPc, recvUpd, hlpPc,
                 hlpMsg, numRecv, callPc, callSender, callRes, cTickC,
                 cSweepPc, cleared, opRet>>

(* ------------------------------------------------------- specifications *)
\* sender liveness: tickets, monitor creation, clock and sweep
LiveNext ==
  \/ Start
  \/ Stop
  \/ Tick
  \/ \E s \in Senders, err \in {"nil", "rejected"} : QueueTicket(s, err)
  \/ \E g \in Monitors : MonitorLoad(g)
  \/ \E g \in Monitors : MonitorTouch(g)
  \/ \E g \in Monitors : MonitorCreate(g)
  \/ \E g \in Monitors : MonitorSubscribe(g)
  \/ \E g \in Monitors : MonitorQuit(g)
  \/ SweepStart
  \/ \E s \in Senders : SweepVisit(s)
  \/ SweepQuit

\* fan-out: monitors broadcasting to the streaming handlers
FanNext ==
  \/ Start
  \/ Stop
  \/ \E s \in Senders : QueueTicketOk(s)
  \/ \E g \in Monitors : MonitorLoad(g)
  \/ \E g \in Monitors : MonitorTouch(g)
  \/ \E g \in Monitors : MonitorCreate(g)
  \/ \E g \in Monitors : MonitorSubscribe(g)
  \/ \E g \in Monitors : MonitorQuit(g)
  \/ \E g \in Monitors : MonitorTake(g)
  \/ \E g \in Monitors, p \in Peers : MonitorRangeNext(g, p)
  \/ \E g \in Monitors : MonitorRangeDone(g)
  \/ \E s \in Senders : AuthorityChange(s, FALSE)
  \/ \E p \in Peers : MonitorMaxFloatCall(p)
  \/ \E h \in Handlers : HandlerLoad(h)
  \/ \E h \in Handlers : HandlerStore(h)
  \/ \E g \in Monitors, h \in Handlers : Deliver(g, h)
  \/ \E h \in Handlers, err \in {"nil", "EOF", "unavailable"} : HandlerSend(h, err)
  \/ \E h \in Handlers : HandlerQuit(h)
  \/ \E h \in Handlers : HandlerCtxDone(h)
  \/ SweepQuit

Spec == Init /\ [][LiveNext]_vars

SpecFan == Init /\ [][FanNext]_vars

\* streaming: tickets queued one at a time, each change published once the
\* one before is broadcast, StreamCalls subscribers, no shutdown
NoTicketInFlight ==
  \A g \in Monitors : mPc[g] \notin {"load", "touch", "create", "subscribe"}
NoChangeInFlight ==
  \A g \in Monitors : mPc[g] \notin {"range", "send"} /\ sink[g] = <<>>
NumCalls == Cardinality({h \in Handlers : hPc[h] # "idle"})

StreamNext ==
  \/ Start
  \/ \E s \in Senders : NoTicketInFlight /\ QueueTicketOk(s)
  \/ \E g \in Monitors : MonitorLoad(g)
  \/ \E g \in Monitors : MonitorTouch(g)
  \/ \E g \in Monitors : MonitorCreate(g)
  \/ \E g \in Monitors : MonitorSubscribe(g)
  \/ \E g \in Monitors : MonitorTake(g)
  \/ \E g \in Monitors, p \in Peers : MonitorRangeNext(g, p)
  \/ \E g \in Monitors : MonitorRangeDone(g)
  \/ \E s \in Senders, nil \in BOOLEAN : NoChangeInFlight /\ AuthorityChange(s, nil)
  \/ \E p \in Peers : NumCalls < StreamCalls /\ MonitorMaxFloatCall(p)
  \/ \E h \in Handlers : HandlerLoad(h)
  \/ \E h \in Handlers : HandlerStore(h)
  \/ \E g \in Monitors, h \in Handlers : Deliver(g, h)
  \/ \E h \in Handlers, err \in {"nil", "EOF", "unavailable"} : HandlerSend(h, err)
  \/ \E h \in Handlers : HandlerCtxDone(h)

SpecStream == Init /\ [][StreamNext]_vars

\* the relay under fair scheduling: every goroutine that can take a step
\* eventually does; tickets, stream calls, published changes, peers going away
\* and Stop are up to the environment
RelayNext ==
  \/ Start
  \/ Stop
  \/ \E s \in Senders : NoTicketInFlight /\ QueueTicketOk(s)
  \/ \E g \in Monitors : MonitorLoad(g)
  \/ \E g \in Monitors : MonitorTouch(g)
  \/ \E g \in Monitors : MonitorCreate(g)
  \/ \E g \in Monitors : MonitorSubscribe(g)
  \/ \E g \in Monitors : MonitorQuit(g)
  \/ \E g \in Monitors : MonitorTake(g)
  \/ \E g \in Monitors, p \in Peers : MonitorRangeNext(g, p)
  \/ \E g \in Monitors : MonitorRangeDone(g)
  \/ \E s \in Senders : NoChangeInFlight /\ AuthorityChange(s, FALSE)
  \/ \E p \in Peers : MonitorMaxFloatCall(p)
  \/ \E h \in Handlers : HandlerLoad(h)
  \/ \E h \in Handlers : HandlerStore(h)
  \/ \E g \in Monitors, h \in Handlers : Deliver(g, h)
  \/ \E h \in Handlers, err \in {"nil", "EOF"} : HandlerSend(h, err)
  \/ \E h \in Handlers : HandlerQuit(h)
  \/ \E h \in Handlers : HandlerCtxDone(h)
  \/ SweepQuit

RelayFairness ==
  /\ WF_vars(\E g \in Monitors : MonitorLoad(g))
  /\ WF_vars(\E g \in Monitors : MonitorTouch(g))
  /\ WF_vars(\E g \in Monitors : MonitorCreate(g))
  /\ WF_vars(\E g \in Monitors : MonitorSubscribe(g))
  /\ WF_vars(\E g \in Monitors : MonitorQuit(g))
  /\ WF_vars(\E g \in Monitors : MonitorTake(g))
  /\ WF_vars(\E g \in Monitors, p \in Peers : MonitorRangeNext(g, p))
  /\ WF_vars(\E g \in Monitors : MonitorRangeDone(g))
  /\ WF_vars(\E h \in Handlers : HandlerLoad(h))
  /\ WF_vars(\E h \in Handlers : HandlerStore(h))
  /\ WF_vars(\E g \in Monitors, h \in Handlers : Deliver(g, h))
  /\ WF_vars(\E h \in Handlers, err \in {"nil", "EOF"} : HandlerSend(h, err))
  /\ WF_vars(\E h \in Handlers : HandlerQuit(h))
  /\ WF_vars(SweepQuit)

SpecRelayFair == Init /\ [][RelayNext]_vars /\ RelayFairness

\* the client proxy, with the relay as its environment
ClientSteps ==
  \/ \E ok \in BOOLEAN : ClientStart(ok)
  \/ Tick
  \/ \E s \in Senders, b \in WireFloats : HelperRecv(s, b)
  \/ HelperRecvErr
  \/ RecvUpdate
  \/ RecvStore
  \/ RecvErr
  \/ \E c \in Calls, s \in Senders : MaxFloatCall(c, s)
  \/ \E c \in Calls : MaxFloatLock(c)
  \/ \E c \in Calls, b \in WireFloats : MaxFloatRpc(c, b)
  \/ \E c \in Calls : MaxFloatRpcErr(c)
  \/ ClientCleanupLaunch
  \/ ClientSweepTick
  \/ ClientSweep

SpecClient == Init /\ [][ClientSteps]_vars

\* the client proxy with Stop
ClientNext ==
  \/ ClientSteps
  \/ ClientStop
  \/ RecvQuit
  \/ ClientSweepQuit

\* fair scheduling of the client's goroutines and callers, and a running
\* clock; calls, streamed messages, Stop and the launch of the cleanup loop
\* are up to the environment
ClientFairness ==
  /\ WF_vars(Tick)
  /\ WF_vars(RecvQuit)
  /\ WF_vars(RecvUpdate)
  /\ WF_vars(RecvStore)
  /\ WF_vars(RecvErr)
  /\ WF_vars(\E c \in Calls : MaxFloatLock(c))
  /\ WF_vars(\E c \in Calls, b \in WireFloats : MaxFloatRpc(c, b))
  /\ WF_vars(ClientSweepTick)
  /\ WF_vars(ClientSweep)
  /\ WF_vars(ClientSweepQuit)

SpecClientFair == Init /\ [][ClientNext]_vars /\ ClientFairness

\* sender liveness with tickets submitted one at a time: a ticket is queued
\* only when the goroutine of the one before has finished its map access
SeqNext ==
  \/ Start
  \/ Stop
  \/ Tick
  \/ \E s \in Senders, err \in {"nil", "rejected"} :
       NoTicketInFlight /\ QueueTicket(s, err)
  \/ \E g \in Monitors : MonitorLoad(g)
  \/ \E g \in Monitors : MonitorTouch(g)
  \/ \E g \in Monitors : MonitorCreate(g)
  \/ \E g \in Monitors : MonitorSubscribe(g)
  \/ \E g \in Monitors : MonitorQuit(g)
  \/ SweepStart
  \/ \E s \in Senders : SweepVisit(s)
  \/ SweepQuit

SpecSeq == Init /\ [][SeqNext]_vars

\* the client's cache, its receive loop and sweep, and callers of MaxFloat,
\* QueueTicket and SubscribeMaxFloat; the stream stays open
ClientOpsNext ==
  \/ ClientStart(TRUE)
  \/ Tick
  \/ \E s \in Senders, b \in WireFloats : HelperRecv(s, b)
  \/ RecvUpdate
  \/ RecvStore
  \/ \E c \in Calls, s \in Senders : MaxFloatCall(c, s)
  \/ \E c \in Calls : MaxFloatLock(c)
  \/ \E c \in Calls, b \in WireFloats : MaxFloatRpc(c, b)
  \/ \E c \in Calls : MaxFloatRpcErr(c)
  \/ ClientCleanupLaunch
  \/ ClientSweepTick
  \/ ClientSweep
  \/ \E c \in Calls, err \in {"nil", "rpc error"} :
       ClientQueueTicket(c, SenderOrder[1], err)
  \/ \E c \in Calls : ClientSubscribeMaxFloat(c, SenderOrder[1])

SpecClientOps == Init /\ [][ClientOpsNext]_vars

\* ValidateSender calls on a client whose cache the receive loop fills
ValidateNext ==
  \/ \E ok \in BOOLEAN : ClientStart(ok)
  \/ \E s \in Senders, b \in WireFloats : HelperRecv(s, b)
  \/ RecvUpdate
  \/ RecvStore
  \/ \E s \in Senders, infoErr \in BOOLEAN, wr \in Rounds, lir \in Rounds :
       ValidateSenderCall(s, infoErr, wr, lir)

SpecValidate == Init /\ [][ValidateNext]_vars

\* a ticket, any with all fields set, encoded by the client and decoded by
\* the relay
InitCodec == InitState /\ codec \in {[stage |-> "ticket", ticket |-> t] : t \in Tickets}
CodecNext == EncodeTicket \/ DecodeTicket
SpecCodec == InitCodec /\ [][CodecNext]_vars

(* ------------------------------------------------- sender liveness claims *)
InLoop(s) == {g \in Monitors : mSender[g] = s /\ Subscribed(g)}

\* C1 (as claimed): concurrent successful QueueTicket calls for a sender that
\* had no liveness entry and no monitor leave exactly one goroutine subscribed
\* to the Float Authority and in the monitor loop. Within the first liveness
\* window no entry can be stale, so no sweep has removed one.
C1_OneMonitorPerNewSender ==
  now <= cleanupLoopTime => \A s \in Senders : Cardinality(InLoop(s)) <= 1

SweptEntry(s) ==
  IF sweepSnap.live[s] # None /\ sweepSnap.live[s] + cleanupLoopTime < sweepSnap.at
    THEN None
    ELSE sweepSnap.live[s]

\* C4: once a sweep that ran at time now has completed with no concurrent
\* touch, exactly the entries with lastAccess + window before now are gone and
\* every other entry is present with its timestamp unchanged.
C4_SweepRemovesExactlyStale ==
  (sweepPc = "wait" /\ sweepSnap # NoSnap) =>
    \A s \in Senders : liveSenders[s] = SweptEntry(s)

\* C4 witness: a completed sweep that deleted one entry and kept another
C4_Witness ==
  /\ sweepPc = "wait"
  /\ sweepSnap # NoSnap
  /\ \E s \in Senders : sweepSnap.live[s] # None /\ liveSenders[s] = None
  /\ \E s \in Senders : sweepSnap.live[s] # None /\ liveSenders[s] # None

\* C7: a QueueTicket whose delegated submit fails returns an Internal error
\* with the submit error's text, spawns no monitor and leaves the liveness map
\* and the registry alone; liveness entries are written only by goroutines
\* that a successful QueueTicket spawned.
C7_FailedSubmitHasNoEffect ==
  [][/\ (qtRet' # qtRet /\ qtRet'.code = "Internal") =>
          /\ qtRet'.msg = "rejected"
          /\ UNCHANGED <<liveSenders, subs, mPc, mSender>>
     /\ (\E g \in Monitors : mPc[g] = "idle" /\ mPc'[g] # "idle") =>
          qtRet'.code = "OK"
     /\ \A s \in Senders :
          (liveSenders'[s] # liveSenders[s] /\ liveSenders'[s] # None) =>
            \E g \in Monitors : /\ mSender[g] = s
                                /\ mPc[g] \in {"touch", "create"}
                                /\ mPc'[g] # mPc[g]]_vars

\* C7 witness: a submit was rejected while a sender was being tracked and a
\* goroutine was running
C7_Witness ==
  /\ qtRet.code = "Internal"
  /\ \E s \in Senders : liveSenders[s] # None
  /\ \E g \in Monitors : mPc[g] = "loop"

(* ----------------------------------------------------- fan-out claims *)
Active(h) == hPc[h] \in {"select", "send"}
Registered(h) == Active(h) /\ subs[hPeer[h]] = hCh[h]

\* C2 (as claimed): a registered, connected subscriber is sent each max-float
\* change exactly once; in particular no change (changes carry distinct
\* values) appears twice on its stream.
C2_EachChangeSentOnce ==
  \A h \in Handlers : Registered(h) =>
    \A i, j \in DOMAIN sent[h] : i # j => sent[h][i] # sent[h][j]

\* C10: a handler leaves stream.Send either by returning an Internal error
\* carrying io.EOF's text, having deleted the registry entry of its own peer
\* address and no other, or by going back to its select with the registry
\* unchanged (Send succeeded or failed with another error).
C10_OnlyEOFUnsubscribes ==
  [][\A h \in Handlers : (hPc[h] = "send" /\ hPc'[h] # "send") =>
       \/ /\ hPc'[h] = "returned"
          /\ hRet'[h] = [code |-> "Internal", msg |-> "EOF", via |-> "send"]
          /\ subs' = [subs EXCEPT ![hPeer[h]] = None]
       \/ /\ hPc'[h] = "select"
          /\ hRet'[h] = NoHRet
          /\ subs' = subs]_vars

\* C10 witness: a handler's Send met end-of-stream; the handler returned the
\* Internal error and its peer's registry entry is gone
C10_Witness ==
  \E h \in Handlers : /\ hPc[h] = "returned"
                      /\ hRet[h] = [code |-> "Internal", msg |-> "EOF", via |-> "send"]
                      /\ subs[hPeer[h]] = None

HasSent(h, c) == \E i \in DOMAIN sent[h] : sent[h][i].maxFloat = Bytes(c)
SoleHandlerOfPeer(h) ==
  \A k \in Handlers \ {h} : hPc[k] # "idle" => hPeer[k] # hPeer[h]
Broadcasting(c, p) ==
  \E g \in Monitors : mPc[g] = "range" /\ mUpd[g] = c /\ p \in mTodo[g]

\* C3 (as claimed): with subscribers registered under different peer
\* addresses, an update that sendMaxFloatUpdate is broadcasting reaches every
\* subscriber that stays connected, also after another subscriber disconnected.
C3_EverySubscriberReceives ==
  \A h \in Handlers : \A c \in Changes :
    (Registered(h) /\ SoleHandlerOfPeer(h) /\ Broadcasting(c, hPeer[h]))
      ~> (HasSent(h, c) \/ ~Active(h))

ServerTerminated ==
  /\ sweepPc = "done"
  /\ \A g \in Monitors : mPc[g] \in {"idle", "done"}
  /\ \A h \in Handlers : hPc[h] \in {"idle", "returned"}

\* C8 (as claimed): once Stop has closed the quit channel, the cleanup sweep,
\* every monitor goroutine and every streaming handler eventually terminate.
C8_StopTerminatesServer == quit ~> ServerTerminated


(* ------------------------------------------------------- client claims *)
\* C5 (as claimed): a RedeemerClient.MaxFloat(S) call made while S has a
\* cached value returns; this holds for every successive read, not only the
\* first.
C5_CachedReadsReturn ==
  \A c \in Calls :
    (callPc[c] = "lock" /\ Cached(callSender[c])) ~> (callPc[c] = "done")

ClientRunning == recvPc \notin {"idle", "done"} /\ ~cQuit

\* C6 (as claimed): in a started client that was not stopped, an entry that
\* went without update and read for longer than the liveness window is
\* eventually removed by the cleanup sweep.
C6_StaleEntryEvicted ==
  \A s \in Senders :
    (ClientRunning /\ s \in StaleSenders) ~> (s \notin StaleSenders \/ cQuit)

\* no client background task is running or blocked; a helper goroutine still
\* inside stream.Recv is not held against the client
ClientTerminated ==
  /\ recvPc \in {"idle", "done"}
  /\ hlpPc \notin {"sendUpd", "sendErr"}
  /\ cSweepPc \in {"notStarted", "done"}

\* C9 (as claimed): after Stop, the receive loop, the helper goroutine that
\* is handing over an update or an error, and the cleanup sweep all
\* eventually terminate.
C9_StopTerminatesClient == cQuit ~> ClientTerminated

C12_RoundTripButRecipientRand ==
  codec.stage = "decoded" =>
    /\ codec.back.Sender = codec.ticket.Sender
    /\ codec.back.Recipient = codec.ticket.Recipient
    /\ codec.back.FaceValue = codec.ticket.FaceValue
    /\ codec.back.WinProb = codec.ticket.WinProb
    /\ codec.back.SenderNonce = codec.ticket.SenderNonce
    /\ codec.back.RecipientRandHash = codec.ticket.RecipientRandHash
    /\ codec.back.CreationRound = codec.ticket.CreationRound
    /\ codec.back.CreationRoundBlockHash = codec.ticket.CreationRoundBlockHash
    /\ codec.back.ParamsExpirationBlock = codec.ticket.ParamsExpirationBlock
    /\ codec.back.Sig = codec.ticket.Sig

\* C12 witness: a decoded ticket whose fields were pairwise different where
\* their types allow, and whose recipient rand did not survive
C12_Witness ==
  /\ codec.stage = "decoded"
  /\ codec.ticket.Sender # codec.ticket.Recipient
  /\ codec.ticket.FaceValue # codec.ticket.WinProb
  /\ codec.ticket.RecipientRandHash # codec.ticket.CreationRoundBlockHash
  /\ codec.ticket.Sig # <<>>
  /\ codec.back.RecipientRand # codec.ticket.RecipientRand

\* C13 (as claimed): RedeemerClient.MaxFloat has released the mutex when it
\* leaves its critical section, on the cache-hit path (it returns) as on the
\* miss path (it goes on to the unary RPC).
C13_MaxFloatReleasesMutex ==
  [][\A c \in Calls : (callPc[c] = "lock" /\ callPc'[c] # "lock") => ~mu']_vars

(* ------------------------------------------------- relay invariants *)
\* C14 (as claimed): at most one monitor goroutine is subscribed to the Float
\* Authority for a sender, also when the sweep removed the sender's liveness
\* entry while its monitor was running and a ticket arrived afterwards.
C14_OneSubscribedMonitor ==
  \A s \in Senders : Cardinality(InLoop(s)) <= 1

\* C15 (as claimed): on one subscriber's stream the updates of one sender
\* appear in the order in which the sender's values were taken from the
\* Float Authority sink: a value published later (non-nil changes carry
\* increasing values) is never followed by one published earlier.
C15_FifoPerSubscriber ==
  \A h \in Handlers : \A i, j \in DOMAIN sent[h] :
    (/\ i < j
     /\ sent[h][i].sender = sent[h][j].sender
     /\ sent[h][i].maxFloat # <<>>
     /\ sent[h][j].maxFloat # <<>>) =>
      SetBytes(sent[h][i].maxFloat) <= SetBytes(sent[h][j].maxFloat)

\* C16 (as claimed): every handler that is serving its stream receives from
\* the channel the registry holds for its peer address, however the
\* MonitorMaxFloat calls of one address interleave.
C16_HandlersShareRegisteredChannel ==
  \A h \in Handlers : Active(h) => subs[hPeer[h]] = hCh[h]

\* C18 (as claimed): every entry of the subscriber registry has a running
\* handler receiving from its channel; a handler that returned, for whatever
\* reason, as the last one of its peer address left no entry behind.
C18_EveryEntryHasReceiver ==
  \A p \in Peers : subs[p] # None =>
    \E h \in Handlers : Active(h) /\ hCh[h] = subs[p]

(* ------------------------------------------------- client cache claims *)
RecvStoreStep == recvPc = "lock" /\ recvPc' = "loop"
ClientSweepStep == cSweepPc = "lock" /\ cSweepPc' = "wait"

\* C17: which senders are in the client cache and the values they hold change
\* only in a step of the receive loop's store or of the cleanup sweep; a
\* MaxFloat call that misses goes to the unary RPC, returns the decoded reply
\* or the RPC's error and leaves the cache as it was; QueueTicket and
\* SubscribeMaxFloat leave it as it was.
C17_OnlyStreamAndSweepChangeCache ==
  [][/\ \A s \in Senders :
          senders'[s].maxFloat # senders[s].maxFloat =>
            RecvStoreStep \/ ClientSweepStep
     /\ \A c \in Calls :
          /\ (callPc[c] = "lock" /\ callPc'[c] = "rpc") => senders' = senders
          /\ (callPc[c] = "rpc" /\ callPc'[c] = "done") =>
               /\ senders' = senders
               /\ callRes'[c].rpc
               /\ \/ callRes'[c].err # "nil" /\ callRes'[c].val = None
                  \/ /\ callRes'[c].err = "nil"
                     /\ callRes'[c].val \in {SetBytes(b) : b \in WireFloats}
          /\ (/\ callRes'[c] # callRes[c]
              /\ callRes'[c].op \in {"QueueTicket", "SubscribeMaxFloat"}) =>
               senders' = senders]_vars

\* C17 witness: a MaxFloat call missed the cache and returned the relay's
\* reply, and its sender is still not in the cache although another sender,
\* stored by the receive loop, is
C17_Witness ==
  \E c \in Calls :
    /\ callPc[c] = "done"
    /\ callRes[c] = [op |-> "MaxFloat", val |-> 1, err |-> "nil", rpc |-> TRUE]
    /\ senders[callSender[c]] = NoEntry
    /\ \E s \in Senders : senders[s] # NoEntry

C20_AbsentMaxFloatIsNoValue ==
  \A c \in Calls :
    (callPc[c] = "done" /\ callRes[c].op = "MaxFloat" /\ ~callRes[c].rpc) =>
      callRes[c].val # SetBytes(<<>>)

====
